---- MODULE Spec2Model ----
(***************************************************************************)
(* AKVF.ipynb: approximate Killing vector fields on a triangle mesh.       *)
(*                                                                         *)
(* The notebook is a kernel namespace (v, f, n, m, idxs, dv, G, Gx, Gy,    *)
(* Gz, P, k, I, Ik, lmbd, A, b, sol, du, e_K) and five code cells that     *)
(* read and assign it.  A cell may be run at any time and in any order;    *)
(* each action below is one run of one cell, from its first line to its    *)
(* last line or to the line that raises.                                   *)
(*                                                                         *)
(* Numbers.  Lengths are in millimetres (the notebook's unit is the metre, *)
(* so .03 is 30, .002 is 2 and .01 is 10).  Arithmetic is exact: an entry  *)
(* of P or A is a + b*sqrt(2), written <<a, b>>; the solution of the       *)
(* least-squares problem is a vector of rationals with a common            *)
(* denominator.  Arrays are indexed from 0, as in the source.              *)
(***************************************************************************)
EXTENDS Integers, Sequences, FiniteSets, TLC

(***************************************************************************)
(* Bounds of the model.                                                    *)
(***************************************************************************)
NumMeshes == 3      \* how many meshes of MeshCatalog the mesh file may hold
MaxLmbd == 2        \* lmbd is drawn from 1..MaxLmbd
MaxRuns == 6        \* how many cell runs a session has

(***************************************************************************)
(* 0-based arrays.                                                         *)
(***************************************************************************)
\* a table is computed once, when it is built (comparing it evaluates it)
Eval(t) == CHOOSE u \in {t} : u = u
Arr(s) == Eval([i \in 0..(Len(s) - 1) |-> s[i + 1]])
Size(a) == Cardinality(DOMAIN a)
Hstack(a, c) ==
    LET la == Size(a)
        lc == Size(c)
    IN  Eval([i \in 0..(la + lc - 1) |-> IF i < la THEN a[i] ELSE c[i - la]])
Zeros(len) == Eval([i \in 0..(len - 1) |-> 0])
Zeros3(len) == Eval([i \in 0..(len - 1) |-> [j \in 0..2 |-> 0]])

\* np.where(pred)[0]: the indices in S, ascending
Where(S) ==
    Eval([i \in 0..(Cardinality(S) - 1) |->
            CHOOSE p \in S : Cardinality({q \in S : q < p}) = i])

Abs(x) == IF x < 0 THEN -x ELSE x
RECURSIVE GcdNat(_, _)
GcdNat(x, y) == IF y = 0 THEN x ELSE GcdNat(y, x % y)
Gcd(x, y) == GcdNat(Abs(x), Abs(y))
Lcm(x, y) == IF x = 0 \/ y = 0 THEN 0 ELSE (Abs(x) \div Gcd(x, y)) * Abs(y)
RECURSIVE SumTo(_, _)
\* sum of t[0..len-1]
SumTo(t, len) == IF len = 0 THEN 0 ELSE t[len - 1] + SumTo(t, len - 1)

(***************************************************************************)
(* Numbers a + b*sqrt(2).                                                  *)
(***************************************************************************)
Z2Zero == <<0, 0>>
Z2Int(c) == <<c, 0>>
Z2Add(x, y) == <<x[1] + y[1], x[2] + y[2]>>
Z2Mul(x, y) == <<x[1] * y[1] + 2 * x[2] * y[2], x[1] * y[2] + x[2] * y[1]>>
Z2Square(x) == Z2Mul(x, x)
RECURSIVE Z2SumTo(_, _)
Z2SumTo(t, len) ==
    IF len = 0 THEN Z2Zero ELSE Z2Add(t[len - 1], Z2SumTo(t, len - 1))

\* S without its square root
One == <<1, 0>>
\* S = np.sqrt(2)
S == <<0, 1>>

(***************************************************************************)
(* Vectors of R^3 (0-based components).                                    *)
(***************************************************************************)
V3(x, y, z) == Eval([j \in 0..2 |-> CASE j = 0 -> x [] j = 1 -> y [] OTHER -> z])
Sub3(p, q) == Eval([j \in 0..2 |-> p[j] - q[j]])
Dot3(p, q) == p[0] * q[0] + p[1] * q[1] + p[2] * q[2]
Cross3(p, q) ==
    V3(p[1] * q[2] - p[2] * q[1],
       p[2] * q[0] - p[0] * q[2],
       p[0] * q[1] - p[1] * q[0])

(***************************************************************************)
(* Sparse matrices: a shape and the dense table of entries.                *)
(***************************************************************************)
Mat(nr, nc, a) == [shape |-> <<nr, nc>>, a |-> Eval(a)]
NRows(M) == M.shape[1]
NCols(M) == M.shape[2]
\* sp.sparse.csr_matrix((nr, nc)): all zero
ZeroMat(nr, nc) == Mat(nr, nc, [i \in 0..(nr - 1) |-> [j \in 0..(nc - 1) |-> 0]])
\* M[lo:hi]: row slice, clipped to the shape
Clip(x, hi) == IF x < 0 THEN 0 ELSE IF x > hi THEN hi ELSE x
RowSlice(M, lo, hi) ==
    LET l == Clip(lo, NRows(M))
        h == Clip(hi, NRows(M))
        nr == IF h > l THEN h - l ELSE 0
    IN  Mat(nr, NCols(M),
            [i \in 0..(nr - 1) |-> [j \in 0..(NCols(M) - 1) |-> M.a[l + i][j]]])
\* c * M for an integer matrix M and an integer c
IntScale(c, M) ==
    Mat(NRows(M), NCols(M),
        [i \in 0..(NRows(M) - 1) |-> [j \in 0..(NCols(M) - 1) |-> c * M.a[i][j]]])
\* c * M for an integer matrix M and c = a + b*sqrt(2)
Z2Scale(c, M) ==
    Mat(NRows(M), NCols(M),
        [i \in 0..(NRows(M) - 1) |->
            [j \in 0..(NCols(M) - 1) |-> Z2Mul(c, Z2Int(M.a[i][j]))]])

\* None in a block literal
None == [shape |-> <<-1, -1>>, a |-> <<>>]
IsNone(B) == B.shape[1] = -1

(***************************************************************************)
(* sp.sparse.bmat(blocks): blocks is a list of rows of blocks.             *)
(***************************************************************************)
\* height of block row r / width of block column c: that of its blocks that
\* are not None
BlockHeights(blocks, r) ==
    {blocks[r][c].shape[1] : c \in {d \in DOMAIN blocks[r] : ~IsNone(blocks[r][d])}}
BlockWidths(blocks, c) ==
    {blocks[r][c].shape[2] : r \in {d \in DOMAIN blocks : ~IsNone(blocks[d][c])}}
\* bmat raises ValueError unless this holds
BMatCompatible(blocks) ==
    /\ \A r \in DOMAIN blocks : Cardinality(BlockHeights(blocks, r)) = 1
    /\ \A c \in DOMAIN blocks[1] : Cardinality(BlockWidths(blocks, c)) = 1
RECURSIVE OffsetOf(_, _)
\* sizes[1] + ... + sizes[r - 1]
OffsetOf(sizes, r) == IF r <= 1 THEN 0 ELSE sizes[r - 1] + OffsetOf(sizes, r - 1)
Offsets(sizes) == Eval([r \in 1..(Len(sizes) + 1) |-> OffsetOf(sizes, r)])
RowOffsets(blocks) ==
    Offsets(Eval([r \in 1..Len(blocks) |-> CHOOSE h \in BlockHeights(blocks, r) : TRUE]))
ColOffsets(blocks) ==
    Offsets(Eval([c \in 1..Len(blocks[1]) |-> CHOOSE w \in BlockWidths(blocks, c) : TRUE]))
\* the block that holds row (column) i
BlockOf(offs, i) == CHOOSE r \in 1..(Len(offs) - 1) : offs[r] <= i /\ i < offs[r + 1]
BlockEntry(blocks, zero, ro, co, r, c, i, j) ==
    IF IsNone(blocks[r][c]) THEN zero ELSE blocks[r][c].a[i - ro[r]][j - co[c]]
BMatAt(blocks, zero, ro, co) ==
    Mat(ro[Len(ro)], co[Len(co)],
        [i \in 0..(ro[Len(ro)] - 1) |->
            [j \in 0..(co[Len(co)] - 1) |->
                BlockEntry(blocks, zero, ro, co, BlockOf(ro, i), BlockOf(co, j), i, j)]])
BMat(blocks, zero) == BMatAt(blocks, zero, RowOffsets(blocks), ColOffsets(blocks))

(***************************************************************************)
(* Meshes the file data/bunny.obj may hold.  Every face has a doubled area *)
(* of 1, which keeps igl.grad's entries integers.                          *)
(***************************************************************************)
MeshCatalog ==
    << [v |-> Arr(<<V3(8, 170, -15), V3(9, 172, -15), V3(10, 173, -15)>>),
        f |-> Arr(<<Arr(<<0, 1, 2>>)>>)],
       [v |-> Arr(<<V3(10, 170, -15), V3(9, 170, -15), V3(10, 170, -14)>>),
        f |-> Arr(<<Arr(<<0, 1, 2>>), Arr(<<1, 2, 0>>)>>)],
       [v |-> Arr(<<V3(9, 170, -15), V3(10, 170, -15), V3(10, 171, -15),
                    V3(9, 171, -15)>>),
        f |-> Arr(<<Arr(<<0, 1, 2>>), Arr(<<0, 2, 3>>)>>)],
       [v |-> Arr(<<V3(10, 170, -15), V3(9, 170, -15), V3(10, 171, -15)>>),
        f |-> Arr(<<Arr(<<0, 1, 2>>)>>)] >>
Meshes == {MeshCatalog[i] : i \in 1..NumMeshes}

(***************************************************************************)
(* igl.grad(v, f): the (3m x n) gradient of the piecewise-linear hat       *)
(* functions, rows [0,m) d/dx, [m,2m) d/dy, [2m,3m) d/dz.  For the face    *)
(* (i1, i2, i3) with normal nn = v32 x v13 the gradient of a vertex's hat  *)
(* function is nn x (opposite edge) / (nn . nn).                           *)
(***************************************************************************)
FaceGrad(vv, face) ==
    LET v32 == Sub3(vv[face[2]], vv[face[1]])
        v13 == Sub3(vv[face[0]], vv[face[2]])
        v21 == Sub3(vv[face[1]], vv[face[0]])
        nn == Cross3(v32, v13)
        d == Dot3(nn, nn)
        e13 == Cross3(nn, v13)
        e21 == Cross3(nn, v21)
    IN  [dblA2 |-> d,
         g2 |-> [a \in 0..2 |-> e13[a] \div d],
         g3 |-> [a \in 0..2 |-> e21[a] \div d],
         exact |-> d > 0 /\ \A a \in 0..2 : e13[a] % d = 0 /\ e21[a] % d = 0]
Grad(vv, ff) ==
    LET nv == Size(vv)
        nf == Size(ff)
        fg == Eval([i \in 0..(nf - 1) |-> FaceGrad(vv, ff[i])])
        E(r, p) ==
            LET a == r \div nf
                i == r % nf
                face == ff[i]
            IN  (IF p = face[1] THEN fg[i].g2[a] ELSE 0)
              + (IF p = face[2] THEN fg[i].g3[a] ELSE 0)
              - (IF p = face[0] THEN fg[i].g2[a] + fg[i].g3[a] ELSE 0)
    IN  Mat(3 * nf, nv, [r \in 0..(3 * nf - 1) |-> [p \in 0..(nv - 1) |-> E(r, p)]])

(***************************************************************************)
(* The constants of the constraint cell.                                   *)
(***************************************************************************)
pt_ear == V3(-20, 170, -15)
r_ear == 30
base_eps == 2
ear_shift == V3(10, 0, 10)

(***************************************************************************)
(* Rational vectors: numerators over one positive denominator, in lowest   *)
(* terms.                                                                  *)
(***************************************************************************)
RECURSIVE GcdTo(_, _)
\* gcd of t[0..len-1]
GcdTo(t, len) == IF len = 0 THEN 0 ELSE Gcd(t[len - 1], GcdTo(t, len - 1))
RatVec(num, den) ==
    LET len == Size(num)
        g == Gcd(GcdTo(num, len), den)
        s == IF den < 0 THEN -1 ELSE 1
    IN  [num |-> Eval([i \in 0..(len - 1) |-> s * (num[i] \div g)]),
         den |-> s * (den \div g)]
RatZero(len) == [num |-> Zeros(len), den |-> 1]

(***************************************************************************)
(* sp.sparse.linalg.lsqr(A, b), in exact arithmetic.  LSQR started at      *)
(* x = 0 converges to the least-squares solution of minimum norm:          *)
(* the x with A'A x = A'b that is orthogonal to the null space of A.       *)
(***************************************************************************)
\* A'A (a table indexed 1..q, 1..q) and A'b (1..q); both are rational
NormalMatrix(A) ==
    Eval([j \in 1..NCols(A) |-> [l \in 1..NCols(A) |->
        Z2SumTo([i \in 0..(NRows(A) - 1) |-> Z2Mul(A.a[i][j - 1], A.a[i][l - 1])],
                NRows(A))[1]]])
NormalRhs(A, b) ==
    Eval([j \in 1..NCols(A) |->
        Z2SumTo([i \in 0..(NRows(A) - 1) |-> Z2Mul(A.a[i][j - 1], Z2Int(b[i]))],
                NRows(A))[1]])
\* the products above have no sqrt(2) part
NormalIsRational(A, b) ==
    \A j \in 1..NCols(A) :
        /\ Z2SumTo([i \in 0..(NRows(A) - 1) |-> Z2Mul(A.a[i][j - 1], Z2Int(b[i]))],
                   NRows(A))[2] = 0
        /\ \A l \in 1..NCols(A) :
              Z2SumTo([i \in 0..(NRows(A) - 1) |->
                          Z2Mul(A.a[i][j - 1], A.a[i][l - 1])], NRows(A))[2] = 0

\* integer rows (sequences), kept in lowest terms
RECURSIVE RowGcd(_, _)
RowGcd(row, len) == IF len = 0 THEN 0 ELSE Gcd(row[len], RowGcd(row, len - 1))
DivRow(row, g) == IF g <= 1 THEN row ELSE Eval([j \in 1..Len(row) |-> row[j] \div g])
NormRow(row) == DivRow(row, RowGcd(row, Len(row)))
\* the first LSQR iterate: the multiple of c = A'b that minimises the residual,
\* (c.c / c.Nc) c
StepAlong(c0, g, cc, cNc) ==
    IF cNc = 0 THEN RatZero(Len(c0))
    ELSE RatVec(Eval([p \in 0..(Len(c0) - 1) |->
                        ((cc * g) \div Gcd(cc * g, cNc)) * c0[p + 1]]),
                cNc \div Gcd(cc * g, cNc))
Direction(N, c0, g) ==
    StepAlong(c0, g,
              SumTo([j \in 0..(Len(c0) - 1) |-> c0[j + 1] * c0[j + 1]], Len(c0)),
              SumTo([i \in 0..(Len(c0) - 1) |->
                        c0[i + 1] * SumTo([j \in 0..(Len(c0) - 1) |->
                                              N[i + 1][j + 1] * c0[j + 1]], Len(c0))],
                    Len(c0)))
FirstIterate(N, c) == Direction(N, DivRow(c, RowGcd(c, Len(c))), RowGcd(c, Len(c)))
\* pa * row - pb * prow
CombineBy(row, prow, pa, pb) ==
    NormRow(Eval([j \in 1..Len(row) |-> pa * row[j] - pb * prow[j]]))
\* row with column col eliminated by the pivot row prow
Combine(row, prow, col) ==
    CombineBy(row, prow, prow[col] \div Gcd(prow[col], row[col]),
              row[col] \div Gcd(prow[col], row[col]))
\* the row below pr whose entry in column col is the smallest that is not 0
PivotRow(M, pr, col) ==
    CHOOSE r \in (pr + 1)..Len(M) :
        /\ M[r][col] # 0
        /\ \A s \in (pr + 1)..Len(M) :
              \/ M[s][col] = 0
              \/ Abs(M[r][col]) < Abs(M[s][col])
              \/ Abs(M[r][col]) = Abs(M[s][col]) /\ r <= s
Swap(M, at, sel) ==
    Eval([r \in 1..Len(M) |-> IF r = at THEN M[sel] ELSE IF r = sel THEN M[at] ELSE M[r]])
Reduce(M, at, col) ==
    Eval([r \in 1..Len(M) |->
            IF r = at \/ M[r][col] = 0 THEN M[r] ELSE Combine(M[r], M[at], col)])
RECURSIVE GaussJordan(_, _, _, _, _)
\* reduced row echelon form over columns col..q; rows 1..pr hold the pivots
\* found so far, pivs their columns
GaussJordan(M, pr, col, q, pivs) ==
    IF col > q \/ pr = Len(M) THEN [rows |-> M, pivs |-> pivs]
    ELSE IF \A r \in (pr + 1)..Len(M) : M[r][col] = 0
         THEN GaussJordan(M, pr, col + 1, q, pivs)
         ELSE GaussJordan(Reduce(Swap(M, pr + 1, PivotRow(M, pr, col)), pr + 1, col),
                          pr + 1, col + 1, q, Append(pivs, col))
RowReduce(M, q) == GaussJordan(M, 0, 1, q, <<>>)
RECURSIVE LcmPivots(_, _, _)
LcmPivots(rows, pivs, i) ==
    IF i = 0 THEN 1 ELSE Lcm(LcmPivots(rows, pivs, i - 1), rows[i][pivs[i]])
\* the row of pivot column p (0: p is a free column)
PivRow(pivs, p) ==
    IF \E i \in 1..Len(pivs) : pivs[i] = p
    THEN CHOOSE i \in 1..Len(pivs) : pivs[i] = p
    ELSE 0
\* a vector spanning the null-space direction of free column j, as a row
\* z . x = 0
NullVectorBy(rows, pivs, j, q, L) ==
    NormRow(Eval([p \in 1..(q + 1) |->
        IF p = j THEN L
        ELSE IF p <= q /\ PivRow(pivs, p) # 0
             THEN -rows[PivRow(pivs, p)][j] * (L \div rows[PivRow(pivs, p)][p])
             ELSE 0]))
NullVector(rows, pivs, j, q) ==
    NullVectorBy(rows, pivs, j, q, LcmPivots(rows, pivs, Len(pivs)))
\* the t-th free column
FreeColumn(pivs, q, t) ==
    CHOOSE j \in 1..q :
        /\ PivRow(pivs, j) = 0
        /\ Cardinality({u \in 1..(j - 1) : PivRow(pivs, u) = 0}) = t - 1
\* the pivot rows, and under them one null vector for every free column
Stacked(r, q) ==
    Eval([i \in 1..q |->
            IF i <= Len(r.pivs) THEN r.rows[i]
            ELSE NullVector(r.rows, r.pivs, FreeColumn(r.pivs, q, i - Len(r.pivs)), q)])
FullRank(r, q) == IF Len(r.pivs) = q THEN r ELSE RowReduce(Stacked(r, q), q)
Augmented(N, c) ==
    Eval([i \in 1..Len(N) |->
            NormRow(Eval([j \in 1..(Len(N) + 1) |-> IF j <= Len(N) THEN N[i][j] ELSE c[i]]))])
\* x[p] as <<numerator, denominator>>, the denominator positive; row i of r
\* reads rows[i][pivs[i]] * x[pivs[i]] = rows[i][q + 1]
Fraction(t, d) ==
    << (IF d < 0 THEN -1 ELSE 1) * (t \div Gcd(t, d)),
       (IF d < 0 THEN -1 ELSE 1) * (d \div Gcd(t, d)) >>
Fractions(r, q) ==
    Eval([p \in 1..q |->
            Fraction(r.rows[PivRow(r.pivs, p)][q + 1], r.rows[PivRow(r.pivs, p)][p])])
RECURSIVE LcmDen(_, _)
LcmDen(frac, p) == IF p = 0 THEN 1 ELSE Lcm(LcmDen(frac, p - 1), frac[p][2])
OverDen(frac, q, den) ==
    RatVec(Eval([p \in 0..(q - 1) |-> frac[p + 1][1] * (den \div frac[p + 1][2])]), den)
Common(frac, q) == OverDen(frac, q, LcmDen(frac, q))
\* a solver that returns its first iterate as the solution
OneStepSolve(N, c) == FirstIterate(N, c)
\* the minimum-norm solution of N x = c (c in the range of N)
MinNormSolve(N, c) ==
    Common(Fractions(FullRank(RowReduce(Augmented(N, c), Len(N)), Len(N)), Len(N)), Len(N))
\* M @ x for the numerators of x
MatVec(pp, num) ==
    Eval([i \in 0..(NRows(pp) - 1) |->
        Z2SumTo([j \in 0..(NCols(pp) - 1) |-> Z2Mul(pp.a[i][j], Z2Int(num[j]))],
                NCols(pp))])
\* A x = b
Consistent(A, b, x) ==
    \A i \in 0..(NRows(A) - 1) : MatVec(A, x.num)[i] = Z2Int(x.den * b[i])
\* istop 0: A'b = 0, x = 0 is returned at once; 1: x solves A x = b;
\* 2: x solves the least-squares problem; 7: the iteration limit is reached.
\* Rounding, which decides on an ill-conditioned mesh whether the tolerances
\* are met, is not modelled: converged is the outcome.  An iteration that
\* stops at the limit returns an iterate that is not the solution; the model
\* takes the first.
Stopped(A, b, x) == [x |-> x, istop |-> IF Consistent(A, b, x) THEN 1 ELSE 2]
\* N x = c: x, a multiple of A'b, is then the solution of minimum norm
SolvesNormal(N, c, x) ==
    \A i \in 1..Len(c) :
        SumTo([j \in 0..(Len(c) - 1) |-> N[i][j + 1] * x.num[j]], Len(c)) = x.den * c[i]
AtLimit(A, b, N, c, x1) ==
    IF SolvesNormal(N, c, x1) THEN Stopped(A, b, x1) ELSE [x |-> x1, istop |-> 7]
LsqrNormal(A, b, N, c, converged) ==
    IF \A j \in 1..Len(c) : c[j] = 0 THEN [x |-> RatZero(Len(c)), istop |-> 0]
    ELSE IF converged THEN Stopped(A, b, MinNormSolve(N, c))
    ELSE AtLimit(A, b, N, c, FirstIterate(N, c))
Lsqr(A, b, converged) == LsqrNormal(A, b, NormalMatrix(A), NormalRhs(A, b), converged)

(***************************************************************************)
(* The kernel namespace.  ns holds the groups of names that are bound:     *)
(* "mesh" (v, f, n, m), "cons" (idxs_ear .. dv), "ops" (G .. P),           *)
(* "I" (k, I), "Ik" (Ik, lmbd), "sys" (A, b, sol, du), "e_K".  A name that *)
(* is not bound holds a placeholder no cell reads.  last is the cell run   *)
(* last, err the exception it raised ("none": it ran to its end) and       *)
(* execution_count the number of cell runs so far.                         *)
(***************************************************************************)
VARIABLES ns, last, err, execution_count,
          v, f, n, m,
          idxs_ear, dv_ear, idxs_base, dv_base, idxs, dv,
          G, Gx, Gy, Gz, P,
          k, I, Ik, lmbd, A, b, sol, du,
          e_K

meshVars == <<v, f, n, m>>
consVars == <<idxs_ear, dv_ear, idxs_base, dv_base, idxs, dv>>
opsVars == <<G, Gx, Gy, Gz, P>>
sysVars == <<A, b, sol, du>>
vars == <<ns, last, err, execution_count, meshVars, consVars, opsVars,
          k, I, Ik, lmbd, sysVars, e_K>>

\* every run of a cell takes the next execution count
Tick ==
    /\ execution_count < MaxRuns
    /\ execution_count' = execution_count + 1

Unbound == <<>>
NoSol == [x |-> RatZero(0), istop |-> -1]

Init ==
    /\ ns = {}
    /\ last = "start"
    /\ err = "none"
    /\ execution_count = 0
    /\ v = Unbound /\ f = Unbound /\ n = 0 /\ m = 0
    /\ idxs_ear = Unbound /\ dv_ear = Unbound
    /\ idxs_base = Unbound /\ dv_base = Unbound
    /\ idxs = Unbound /\ dv = Unbound
    /\ G = None /\ Gx = None /\ Gy = None /\ Gz = None /\ P = None
    /\ k = 0 /\ I = None /\ Ik = None /\ lmbd = 0
    /\ A = None /\ b = Unbound /\ sol = NoSol /\ du = [num |-> Unbound, den |-> 1]
    /\ e_K = [num |-> Unbound, den |-> 1]

(***************************************************************************)
(* Cell "Import mesh": v, f = igl.read_triangle_mesh(..); n, m.            *)
(***************************************************************************)
ImportMesh(mesh) ==
    /\ Tick
    /\ v' = mesh.v
    /\ f' = mesh.f
    /\ n' = Size(v')
    /\ m' = Size(f')
    /\ ns' = ns \cup {"mesh"}
    /\ last' = "mesh"
    /\ err' = "none"
    /\ UNCHANGED <<consVars, opsVars, k, I, Ik, lmbd, sysVars, e_K>>

(***************************************************************************)
(* Cell "Define constraints".  anchor is FALSE when the two lines marked   *)
(* "comment this, if you want to demonstrate how rigid deformation is      *)
(* recovered" are commented out.                                           *)
(***************************************************************************)
\* np.where(np.square(v-pt_ear).sum(1) < np.square(r_ear))[0]
EarIdxs(vv) ==
    Where({p \in DOMAIN vv :
              Dot3(Sub3(vv[p], pt_ear), Sub3(vv[p], pt_ear)) < r_ear * r_ear})
\* v.min(axis=0)[1]
MinY(vv) == CHOOSE y \in {vv[p][1] : p \in DOMAIN vv} : \A p \in DOMAIN vv : y <= vv[p][1]
\* np.where(v[:,1] < (v.min(axis=0)[1] + .002))[0]
BaseIdxs(vv) == Where({p \in DOMAIN vv : vv[p][1] < MinY(vv) + base_eps})
\* np.zeros([len(idxs_ear), 3]) + [.01,0,.01]
EarTargets(ids) == Eval([i \in DOMAIN ids |-> ear_shift])
\* dv[ids] = rows that keeps the row assigned first
AssignRowsFirst(arr, ids, rows) ==
    Eval([p \in DOMAIN arr |->
        IF (\E i \in DOMAIN ids : ids[i] = p) /\ arr[p] = Zeros3(1)[0]
        THEN rows[CHOOSE i \in DOMAIN ids :
                    ids[i] = p /\ \A j \in DOMAIN ids : ids[j] = p => i <= j]
        ELSE arr[p]])
\* dv[ids] = rows: a row of dv is assigned for every entry of ids, in order
AssignRows(arr, ids, rows) ==
    Eval([p \in DOMAIN arr |->
        IF \E i \in DOMAIN ids : ids[i] = p
        THEN rows[CHOOSE i \in DOMAIN ids :
                    ids[i] = p /\ \A j \in DOMAIN ids : ids[j] = p => j <= i]
        ELSE arr[p]])
DefineConstraints(anchor) ==
    /\ Tick
    /\ "mesh" \in ns
    /\ idxs_ear' = EarIdxs(v)
    /\ dv_ear' = EarTargets(idxs_ear')
    /\ idxs_base' = BaseIdxs(v)
    /\ dv_base' = Zeros3(Size(idxs_base'))
    /\ idxs' = IF anchor THEN Hstack(idxs_ear', idxs_base') ELSE idxs_ear'
    /\ dv' = IF anchor
             THEN AssignRows(AssignRows(Zeros3(Size(v)), idxs_ear', dv_ear'),
                             idxs_base', dv_base')
             ELSE AssignRows(Zeros3(Size(v)), idxs_ear', dv_ear')
    /\ ns' = ns \cup {"cons"}
    /\ last' = "constraints"
    /\ err' = "none"
    /\ UNCHANGED <<meshVars, opsVars, k, I, Ik, lmbd, sysVars, e_K>>

(***************************************************************************)
(* Cell "Discrete gradient operator": G, Gx, Gy, Gz, S, P.                 *)
(***************************************************************************)
\* P with its last two rows of blocks exchanged
KillingOperatorSwapped(gx, gy, gz) ==
    BMat(<< <<Z2Scale(Z2Int(2), gx), None, None>>,
            <<None, Z2Scale(Z2Int(2), gy), None>>,
            <<None, None, Z2Scale(Z2Int(2), gz)>>,
            <<Z2Scale(S, gy), Z2Scale(S, gx), None>>,
            <<None, Z2Scale(S, gz), Z2Scale(S, gy)>>,
            <<Z2Scale(S, gz), None, Z2Scale(S, gx)>> >>, Z2Zero)
KillingOperator(gx, gy, gz) ==
    BMat(<< <<Z2Scale(Z2Int(2), gx), None, None>>,
            <<None, Z2Scale(Z2Int(2), gy), None>>,
            <<None, None, Z2Scale(Z2Int(2), gz)>>,
            <<Z2Scale(S, gy), Z2Scale(S, gx), None>>,
            <<Z2Scale(S, gz), None, Z2Scale(S, gx)>>,
            <<None, Z2Scale(S, gz), Z2Scale(S, gy)>> >>, Z2Zero)
BuildOperators ==
    /\ Tick
    /\ "mesh" \in ns
    /\ G' = Grad(v, f)
    /\ Gx' = RowSlice(G', 0, m)
    /\ Gy' = RowSlice(G', m, 2 * m)
    /\ Gz' = RowSlice(G', 2 * m, NRows(G'))
    /\ P' = KillingOperator(Gx', Gy', Gz')
    /\ ns' = ns \cup {"ops"}
    /\ last' = "operators"
    /\ err' = "none"
    /\ UNCHANGED <<meshVars, consVars, k, I, Ik, lmbd, sysVars, e_K>>

(***************************************************************************)
(* Cell "Minimize via lstsq": k, I, Ik, lmbd, A, b, sol, du.               *)
(***************************************************************************)
\* positions of idxs whose assignment I[i, idx] = 1 raises IndexError
BadPositions(ids, nn) == {i \in DOMAIN ids : ids[i] >= nn}
FirstBad(ids, nn) ==
    CHOOSE i \in BadPositions(ids, nn) : \A j \in BadPositions(ids, nn) : i <= j
\* I after the loop has assigned the positions below stop
SelectionMatrix(ids, kk, nn, stop) ==
    Mat(kk, nn,
        [i \in 0..(kk - 1) |->
            [p \in 0..(nn - 1) |-> IF i < stop /\ ids[i] = p THEN 1 ELSE 0]])
ConstraintOperator(sel) ==
    BMat(<< <<IntScale(1, sel), IntScale(0, sel), IntScale(0, sel)>>,
            <<IntScale(0, sel), IntScale(1, sel), IntScale(0, sel)>>,
            <<IntScale(0, sel), IntScale(0, sel), IntScale(1, sel)>> >>, 0)
\* bmat([[P], [lmbd*Ik]])
SystemBlocks(pp, w, ik) == << <<pp>>, <<Z2Scale(Z2Int(w), ik)>> >>
StackSystem(pp, w, ik) == BMat(SystemBlocks(pp, w, ik), Z2Zero)
\* dv[idxs].flatten(order='C'): the three components of each target in turn
FlattenTargetsC(dd, ids) ==
    Eval([t \in 0..(3 * Size(ids) - 1) |-> dd[ids[t \div 3]][t % 3]])
\* dv[idxs].flatten(order='F'): all x-components, then all y, then all z
FlattenTargets(dd, ids) ==
    Eval([t \in 0..(3 * Size(ids) - 1) |-> dd[ids[t % Size(ids)]][t \div Size(ids)]])
Scaled(w, t) == Eval([i \in DOMAIN t |-> w * t[i]])
\* np.hstack([np.zeros([P.shape[0]]), lmbd*dv[idxs].flatten(order='F')])
RightHandSide(pp, w, dd, ids) ==
    Hstack(Zeros(NRows(pp)), Scaled(w, FlattenTargets(dd, ids)))
\* x.reshape((rows, 3), order='F')
ReshapeF(x, rows) ==
    [num |-> Eval([p \in 0..(rows - 1) |-> [j \in 0..2 |-> x.num[j * rows + p]]]),
     den |-> x.den]
Solve(w, converged) ==
    /\ Tick
    /\ "cons" \in ns
    /\ k' = Size(idxs)
    /\ \/ /\ BadPositions(idxs, n) # {}
          /\ I' = SelectionMatrix(idxs, k', n, FirstBad(idxs, n))
          /\ ns' = ns \cup {"I"}
          /\ err' = "IndexError"
          /\ UNCHANGED <<Ik, lmbd, sysVars>>
       \/ /\ BadPositions(idxs, n) = {}
          /\ I' = SelectionMatrix(idxs, k', n, k')
          /\ Ik' = ConstraintOperator(I')
          /\ lmbd' = w
          /\ \/ /\ "ops" \notin ns
                /\ ns' = ns \cup {"I", "Ik"}
                /\ err' = "NameError"
                /\ UNCHANGED sysVars
             \/ /\ "ops" \in ns
                /\ ~BMatCompatible(SystemBlocks(P, lmbd', Ik'))
                /\ ns' = ns \cup {"I", "Ik"}
                /\ err' = "ValueError"
                /\ UNCHANGED sysVars
             \/ /\ "ops" \in ns
                /\ BMatCompatible(SystemBlocks(P, lmbd', Ik'))
                /\ A' = StackSystem(P, lmbd', Ik')
                /\ b' = RightHandSide(P, lmbd', dv, idxs)
                /\ sol' = Lsqr(A', b', converged)
                /\ du' = ReshapeF(sol'.x, Size(v))
                /\ ns' = ns \cup {"I", "Ik", "sys"}
                /\ err' = "none"
    /\ last' = "solve"
    /\ UNCHANGED <<meshVars, consVars, opsVars, e_K>>

(***************************************************************************)
(* Cell "We can plot the Killing-energy": e_K, then the plot of v+du.      *)
(***************************************************************************)
\* np.square(y).reshape(len, -1, order='F').sum(-1)
FaceSums(y, len) ==
    Eval([i \in 0..(len - 1) |->
            Z2SumTo([c \in 0..((Size(y) \div len) - 1) |-> Z2Square(y[i + len * c])],
                    Size(y) \div len)])
FaceEnergy(pp, x, len) ==
    [num |-> FaceSums(MatVec(pp, x.num), len), den |-> x.den * x.den]
\* the energy cell squaring P in place
EnergyInPlace ==
    /\ Tick
    /\ {"mesh", "ops", "sys"} \subseteq ns
    /\ NCols(P) = Size(sol.x.num)
    /\ NRows(P) % Size(f) = 0
    /\ P' = [P EXCEPT !.a = Eval([i \in DOMAIN P.a |->
                                    [j \in DOMAIN P.a[i] |-> Z2Square(P.a[i][j])]])]
    /\ e_K' = FaceEnergy(P', sol.x, Size(f))
    /\ ns' = ns \cup {"e_K"}
    /\ err' = "none"
    /\ last' = "energy"
    /\ UNCHANGED <<meshVars, consVars, G, Gx, Gy, Gz, k, I, Ik, lmbd, sysVars>>
Energy ==
    /\ Tick
    /\ {"mesh", "ops", "sys"} \subseteq ns
    /\ \/ /\ NCols(P) # Size(sol.x.num) \/ NRows(P) % Size(f) # 0
          /\ err' = "ValueError"
          /\ UNCHANGED <<ns, e_K>>
       \/ /\ NCols(P) = Size(sol.x.num)
          /\ NRows(P) % Size(f) = 0
          /\ e_K' = FaceEnergy(P, sol.x, Size(f))
          /\ ns' = ns \cup {"e_K"}
          /\ err' = IF Size(v) = Size(du.num) THEN "none" ELSE "ValueError"
    /\ last' = "energy"
    /\ UNCHANGED <<meshVars, consVars, opsVars, k, I, Ik, lmbd, sysVars>>

Next ==
    \/ \E mesh \in Meshes : ImportMesh(mesh)
    \/ \E anchor \in BOOLEAN : DefineConstraints(anchor)
    \/ BuildOperators
    \/ \E w \in 1..MaxLmbd, converged \in BOOLEAN : Solve(w, converged)
    \/ Energy

Spec == Init /\ [][Next]_vars

(***************************************************************************)
(* Properties.                                                             *)
(***************************************************************************)
\* the solve cell was run last and ran to its end
Solved == last = "solve" /\ err = "none"
\* the cells were run in the notebook's order on the mesh that is loaded:
\* the operators and the selections are those of v and f
InOrder ==
    /\ {"mesh", "cons", "ops"} \subseteq ns
    /\ G = Grad(v, f)
    /\ idxs_ear = EarIdxs(v)
    /\ idxs_base = BaseIdxs(v)
\* the number of faces of the mesh P was built from
FacesOfP == NRows(P) \div 6
Unit(len, p) == [q \in 0..(len - 1) |-> IF q = p THEN 1 ELSE 0]
\* the unit vectors and the sums of two of them: two quadratic forms that
\* agree on these agree on every vector
TestVectors(len) ==
    {Unit(len, p) : p \in 0..(len - 1)}
        \cup {[q \in 0..(len - 1) |-> Unit(len, p1)[q] + Unit(len, p2)[q]] :
                 p1 \in 0..(len - 1), p2 \in 0..(len - 1)}
\* J[a][c] = (G_c u_a)[i] for x = [u_0; u_1; u_2]
Jacobian(x, i, a, c) ==
    SumTo([p \in 0..(NCols(Gx) - 1) |->
              (IF c = 0 THEN Gx ELSE IF c = 1 THEN Gy ELSE Gz).a[i][p]
                  * x[a * NCols(Gx) + p]], NCols(Gx))
\* ||J + J'||^2 in the Frobenius norm
Frobenius(x, i) ==
    SumTo([t \in 0..8 |->
              (Jacobian(x, i, t \div 3, t % 3) + Jacobian(x, i, t % 3, t \div 3))
                  * (Jacobian(x, i, t \div 3, t % 3) + Jacobian(x, i, t % 3, t \div 3))], 9)
\* the squares of the six entries of y that belong to face i of mm
SixSquares(y, mm, i) == Z2SumTo([r \in 0..5 |-> Z2Square(y[r * mm + i])], 6)
KillingIdentity(x) ==
    \A y \in {MatVec(P, x)} :
        /\ \A i \in 0..(FacesOfP - 1) :
              SixSquares(y, FacesOfP, i) = <<Frobenius(x, i), 0>>
        /\ Z2SumTo([r \in 0..(NRows(P) - 1) |-> Z2Square(y[r])], NRows(P))
              = <<SumTo([i \in 0..(FacesOfP - 1) |-> Frobenius(x, i)], FacesOfP), 0>>
\* every constrained vertex has the target t
UniformTarget(t) == k >= 1 /\ \A i \in 0..(k - 1) : dv[idxs[i]] = t
\* du is the translation by t at every vertex
UniformField(t) ==
    \A p \in 0..(n - 1), j \in 0..2 : du.num[p][j] = t[j] * du.den
FullColumnRank(M) ==
    Len(RowReduce(NormalMatrix(M), NCols(M)).pivs) = NCols(M)
\* the displacement a solve of the loaded mesh and the constraints returns when
\* the cells are run in order from a fresh kernel
FreshDu ==
    LET g == Grad(v, f)
        pp == KillingOperator(RowSlice(g, 0, m), RowSlice(g, m, 2 * m),
                              RowSlice(g, 2 * m, NRows(g)))
        aa == StackSystem(pp, lmbd, Ik)
        bb == RightHandSide(pp, lmbd, dv, idxs)
    IN  ReshapeF(Lsqr(aa, bb, TRUE).x, Size(v))
\* the positions of idxs that hold vertex p
Occurrences(p) == {i \in 0..(k - 1) : idxs[i] = p}
InRange(ids, p) == \E i \in DOMAIN ids : ids[i] = p

C2_KillingEnergy ==
    /\ last = "operators" => \A x \in TestVectors(NCols(P)) : KillingIdentity(x)
    /\ Solved => KillingIdentity(sol.x.num)
\* a P of two faces and a vector whose off-diagonal strain is not zero
C2_Witness ==
    /\ last = "operators"
    /\ FacesOfP = 2
    /\ \E x \in TestVectors(NCols(P)), i \in 0..1 :
          /\ MatVec(P, x)[4 * 2 + i] # Z2Zero
          /\ MatVec(P, x)[i] # Z2Zero

\* C3: one column-block-major order is used throughout: constraint row
\* 6m + j*k + i of A has its one nonzero entry, the weight, at column
\* j*n + idxs[i], b there is weight * dv[idxs[i]][j], the first 6m entries of b
\* are zero, the first 6m rows of A are P, and du[p][j] = x[j*n + p].
\* 6m is the number of rows of P.
C3_ColumnBlockOrder ==
    Solved =>
        /\ A.shape = <<NRows(P) + 3 * k, 3 * n>>
        /\ Size(b) = NRows(P) + 3 * k
        /\ \A r \in 0..(NRows(P) - 1) :
              b[r] = 0 /\ \A c \in 0..(3 * n - 1) : A.a[r][c] = P.a[r][c]
        /\ \A j \in 0..2, i \in 0..(k - 1) :
              /\ \A c \in 0..(3 * n - 1) :
                    A.a[NRows(P) + j * k + i][c]
                        = IF c = j * n + idxs[i] THEN <<lmbd, 0>> ELSE Z2Zero
              /\ b[NRows(P) + j * k + i] = lmbd * dv[idxs[i]][j]
        /\ Size(du.num) = n
        /\ du.den = sol.x.den
        /\ \A p \in 0..(n - 1), j \in 0..2 : du.num[p][j] = sol.x.num[j * n + p]
\* a solve with two constrained vertices of different targets, whose solution
\* moves the vertices differently
C3_Witness ==
    /\ Solved
    /\ k >= 2
    /\ \E i \in 0..(k - 1), i2 \in 0..(k - 1) : dv[idxs[i]] # dv[idxs[i2]]
    /\ \E p \in 0..(n - 1) : du.num[p][0] # du.num[p][1]

\* C4: the energy evaluator returns an array of length m whose entry i is the
\* sum over the six row-blocks r of the square of (P x)[r*m + i], m the
\* number of faces of P; it never mixes faces and no entry is negative.
C4_PerFaceEnergy ==
    (last = "energy" /\ NCols(P) = Size(sol.x.num)) =>
        /\ Size(e_K.num) = FacesOfP
        /\ \A i \in DOMAIN e_K.num :
              /\ i < FacesOfP
              /\ e_K.num[i] = SixSquares(MatVec(P, sol.x.num), FacesOfP, i)
              /\ e_K.num[i][1] >= 0 /\ e_K.num[i][2] = 0

C6_PureSolve ==
    (Solved /\ sol.istop \in {0, 1, 2}) => du = FreshDu

\* C7: a solve that stops at the iteration limit raises
\* NumericalInstabilityError; its iterate is never reshaped into du.
C7_NoSilentIterate ==
    (last = "solve" /\ "sys" \in ns /\ sol.istop = 7) =>
        /\ err = "NumericalInstabilityError"
        /\ du # ReshapeF(sol.x, Size(v))

\* C8: with a constrained vertex id outside [0, n) no cell assembles an
\* operator or solves: the run ends in InvalidConstraintError.
C8_EagerValidation ==
    ("cons" \in ns /\ BadPositions(idxs, n) # {}) =>
        \/ last \in {"mesh", "constraints"}
        \/ err = "InvalidConstraintError"

\* C9: a run of the solve cell leaves G, Gx, Gy, Gz and P (and the mesh, the
\* constraints and e_K) as they are, and a run of the energy cell leaves the
\* operators, the system and the solution as they are.
C9_OperatorsFrame ==
    [][/\ last' = "solve" => UNCHANGED <<opsVars, meshVars, consVars, e_K>>
       /\ last' = "energy" =>
             UNCHANGED <<opsVars, meshVars, consVars, k, I, Ik, lmbd, sysVars>>]_vars
\* a solve with another weight after an energy evaluation
C9_Witness ==
    /\ Solved
    /\ "e_K" \in ns
    /\ lmbd = 2
    /\ e_K.num # FaceEnergy(P, sol.x, Size(f)).num

\* C10: ids are taken in order and duplicates are kept: a vertex p that occurs
\* q times in idxs has q constraint rows in A per axis, one per occurrence, all
\* with the right-hand side weight * dv[p][j]; dv[p] is the target assigned
\* last, the base's when the ear and the base both hold p.
C10_DuplicatesKept ==
    /\ Solved =>
          \A p \in 0..(n - 1), j \in 0..2 :
              /\ {r \in NRows(P)..(NRows(A) - 1) : A.a[r][j * n + p] # Z2Zero}
                    = {NRows(P) + j * k + i : i \in Occurrences(p)}
              /\ Cardinality({r \in NRows(P)..(NRows(A) - 1) : A.a[r][j * n + p] # Z2Zero})
                    = Cardinality(Occurrences(p))
              /\ \A i \in Occurrences(p) : b[NRows(P) + j * k + i] = lmbd * dv[p][j]
    /\ ("cons" \in ns /\ Size(idxs) = Size(idxs_ear) + Size(idxs_base)) =>
          /\ idxs = Hstack(idxs_ear, idxs_base)
          /\ \A p \in DOMAIN dv :
                dv[p] = IF InRange(idxs_base, p) THEN Zeros3(1)[0]
                        ELSE IF InRange(idxs_ear, p) THEN ear_shift
                        ELSE Zeros3(1)[0]
\* a solve in which a vertex of the ear and the base has two rows per axis,
\* beside a vertex with a target that is not zero
C10_Witness ==
    /\ Solved
    /\ \E p \in 0..(n - 1) :
          /\ Cardinality(Occurrences(p)) = 2
          /\ InRange(idxs_ear, p) /\ InRange(idxs_base, p)
    /\ \E i \in 0..(k - 1) : dv[idxs[i]] = ear_shift

====
